---- MODULE Spec2Model ----
(***************************************************************************)
(* Model of the options page controller of ChatGPT-Dictation-Auto-Send:    *)
(* the settings record and its defaults, normalizeSettings, setHint, the   *)
(* storage shim (getStorageArea, storageGet, storageSet) with its          *)
(* sync -> local fallback, and the load()/save() handlers driven by the    *)
(* startup script and by change events of the four form controls.          *)
(*                                                                         *)
(* One action is one browser task together with the microtasks it spawns:  *)
(* the code between two awaits runs without interleaving, so a host        *)
(* completion signal and the continuation of the async function that       *)
(* awaits it form a single step.                                           *)
(***************************************************************************)
EXTENDS Integers, Sequences, FiniteSets, TLC

(***************************************************************************)
(* Bounds.                                                                 *)
(***************************************************************************)
\* Number of change events (hence save() calls) in one behaviour.
MaxEdits == 2

(***************************************************************************)
(* JavaScript values as they appear in a storage mapping.  Every value     *)
(* carries its typeof tag; the payload fields not used by a tag are fixed. *)
(***************************************************************************)
JsStr(str) == [type |-> "string", s |-> str, b |-> FALSE, n |-> 0]
JsBool(bool) == [type |-> "boolean", s |-> "", b |-> bool, n |-> 0]
JsNum(num) == [type |-> "number", s |-> "", b |-> FALSE, n |-> num]
JsNull == [type |-> "object", s |-> "", b |-> FALSE, n |-> 0]
JsUndefined == [type |-> "undefined", s |-> "", b |-> FALSE, n |-> 0]

\* The five keys of the Settings interface.
SettingsKeys == {"skipKey", "holdToSend", "autoExpandChats", "autoTempChat", "tempChatEnabled"}

\* The empty mapping {}.
EmptyObject == [k \in {} |-> JsUndefined]

\* A value of type Record<string, unknown> | null | undefined.
Obj(map) == [kind |-> "object", map |-> map]
Null == [kind |-> "null", map |-> EmptyObject]
Undefined == [kind |-> "undefined", map |-> EmptyObject]

\* data.key for a mapping: undefined when the key is absent.
Prop(data, key) == IF key \in DOMAIN data THEN data[key] ELSE JsUndefined

SETTINGS_DEFAULTS ==
  [skipKey |-> "Shift",
   holdToSend |-> FALSE,
   autoExpandChats |-> TRUE,
   autoTempChat |-> FALSE,
   tempChatEnabled |-> FALSE]

\* A Settings value written as an object literal (the keys argument of load).
SettingsObject(st) ==
  [skipKey |-> JsStr(st.skipKey),
   holdToSend |-> JsBool(st.holdToSend),
   autoExpandChats |-> JsBool(st.autoExpandChats),
   autoTempChat |-> JsBool(st.autoTempChat),
   tempChatEnabled |-> JsBool(st.tempChatEnabled)]

\* normalizeSettings that re-derives tempChatEnabled from autoTempChat.
normalizeSettings_MirrorsOnRead(value) ==
  LET base == SETTINGS_DEFAULTS
      data == IF value.kind \in {"null", "undefined"} THEN EmptyObject ELSE value.map
      autoTempChat == IF Prop(data, "autoTempChat").type = "boolean"
                      THEN Prop(data, "autoTempChat").b ELSE base.autoTempChat
  IN [skipKey |->
        IF Prop(data, "skipKey").type = "string"
        THEN Prop(data, "skipKey").s ELSE base.skipKey,
      holdToSend |->
        IF Prop(data, "holdToSend").type = "boolean"
        THEN Prop(data, "holdToSend").b ELSE base.holdToSend,
      autoExpandChats |->
        IF Prop(data, "autoExpandChats").type = "boolean"
        THEN Prop(data, "autoExpandChats").b ELSE base.autoExpandChats,
      autoTempChat |-> autoTempChat,
      tempChatEnabled |-> autoTempChat]

normalizeSettings(value) ==
  LET base == SETTINGS_DEFAULTS
      data == IF value.kind \in {"null", "undefined"} THEN EmptyObject ELSE value.map
  IN [skipKey |->
        IF Prop(data, "skipKey").type = "string"
        THEN Prop(data, "skipKey").s ELSE base.skipKey,
      holdToSend |->
        IF Prop(data, "holdToSend").type = "boolean"
        THEN Prop(data, "holdToSend").b ELSE base.holdToSend,
      autoExpandChats |->
        IF Prop(data, "autoExpandChats").type = "boolean"
        THEN Prop(data, "autoExpandChats").b ELSE base.autoExpandChats,
      autoTempChat |->
        IF Prop(data, "autoTempChat").type = "boolean"
        THEN Prop(data, "autoTempChat").b ELSE base.autoTempChat,
      tempChatEnabled |->
        IF Prop(data, "tempChatEnabled").type = "boolean"
        THEN Prop(data, "tempChatEnabled").b ELSE base.tempChatEnabled]

\* setHint with the two texts for a modifier key exchanged.
setHint_Swapped(skipKey, holdToSend) ==
  IF skipKey = "None"
  THEN IF holdToSend
       THEN "Auto-send is disabled because no modifier key is selected."
       ELSE "Auto-send always happens when you accept dictation."
  ELSE IF holdToSend
       THEN "Hold " \o skipKey \o " while accepting dictation to skip auto-send."
       ELSE "Auto-send happens only while holding " \o skipKey
              \o " when you accept dictation."

\* The text setHint writes to hintEl.textContent.
setHint(skipKey, holdToSend) ==
  IF skipKey = "None"
  THEN IF holdToSend
       THEN "Auto-send is disabled because no modifier key is selected."
       ELSE "Auto-send always happens when you accept dictation."
  ELSE IF holdToSend
       THEN "Auto-send happens only while holding " \o skipKey
              \o " when you accept dictation."
       ELSE "Hold " \o skipKey \o " while accepting dictation to skip auto-send."

(***************************************************************************)
(* The host environment: the two ambient namespaces and their storage      *)
(* objects.  chrome is always declared (declare const chrome); browser may *)
(* be undeclared, which the code tests with typeof.                        *)
(***************************************************************************)
Areas == {"sync", "local"}

\* A namespace object: whether it has a storage member and which areas that has.
Namespace(hasStorage, areas) == [storage |-> hasStorage, areas |-> areas]

\* The pairs of ambient namespaces explored: chrome alone with every choice of
\* areas, chrome without storage, and browser beside chrome.
Globals ==
  { [browserDeclared |-> FALSE, browser |-> Namespace(FALSE, {}),
     chrome |-> Namespace(TRUE, as)] : as \in SUBSET Areas }
  \cup
  { [browserDeclared |-> FALSE, browser |-> Namespace(FALSE, {}),
     chrome |-> Namespace(FALSE, {})],
    [browserDeclared |-> TRUE, browser |-> Namespace(TRUE, Areas),
     chrome |-> Namespace(TRUE, Areas)],
    [browserDeclared |-> TRUE, browser |-> Namespace(FALSE, {}),
     chrome |-> Namespace(TRUE, Areas)],
    [browserDeclared |-> TRUE, browser |-> Namespace(TRUE, {"local"}),
     chrome |-> Namespace(TRUE, Areas)] }

\* chrome alone, with both areas / with the local area only.
ChromeBoth ==
  [browserDeclared |-> FALSE, browser |-> Namespace(FALSE, {}),
   chrome |-> Namespace(TRUE, Areas)]
ChromeLocal ==
  [browserDeclared |-> FALSE, browser |-> Namespace(FALSE, {}),
   chrome |-> Namespace(TRUE, {"local"})]

\* How one host call (area.get / area.set) answers: it throws synchronously,
\* it calls the callback, it returns a promise, or it does both.
Conventions == {"throw", "callback", "promise", "both"}

\* The ids the script looks up with mustGetElement, in lookup order.
ElementIds == <<"hint", "skipKey", "holdToSend", "autoExpandChats", "autoTempChat">>
AllElements == {ElementIds[i] : i \in DOMAIN ElementIds}

\* The documents explored: complete, or lacking exactly one required element.
Documents == {AllElements} \cup {AllElements \ {e} : e \in AllElements}

\* Values the user can pick in the skipKey select.
SkipKeyOptions == {"Shift", "Ctrl", "None"}

\* The form as authored in the HTML (nothing selected by script yet).
HtmlForm ==
  [skipKey |-> "Shift", holdToSend |-> FALSE,
   autoExpandChats |-> FALSE, autoTempChat |-> FALSE]
HtmlHint == ""

\* Contents a storage area may hold when the page opens: nothing, a partial
\* record, a record with a mistyped field, and a complete record written by
\* another version whose tempChatEnabled differs from autoTempChat.
StoredInputs ==
  { EmptyObject,
    [skipKey |-> JsStr("Alt"), holdToSend |-> JsBool(TRUE)],
    [skipKey |-> JsNum(42), holdToSend |-> JsBool(TRUE)],
    [skipKey |-> JsStr("None"), holdToSend |-> JsBool(FALSE),
     autoExpandChats |-> JsBool(FALSE), autoTempChat |-> JsBool(TRUE),
     tempChatEnabled |-> JsBool(FALSE)] }

Controls == {"skipKey", "holdToSend", "autoExpandChats", "autoTempChat"}

\* The runs explored.  A scenario fixes the namespaces, the conventions the
\* host answers with, the document, the stored contents, the controls the
\* user touches and the number of changes the user makes.
\*   - the startup load alone, in every environment, for all stored contents
\*     and every way the host may answer;
\*   - every document, complete or not, with a user who changes one control;
\*   - one change of any control (with the startup load), in every
\*     environment, per convention;
\*   - up to MaxEdits overlapping changes, with a callback-style host;
\*   - up to MaxEdits changes over storage that starts empty.
Scenario(globals, conventions, doc, stored, touched, edits) ==
  [globals |-> globals, answers |-> conventions, doc |-> doc,
   stored |-> stored, touched |-> touched, edits |-> edits]

\* The stored contents of the runs with changes: a complete record of
\* another version in sync, a partial record in local.
SeedStore ==
  [sync |-> [skipKey |-> JsStr("None"), holdToSend |-> JsBool(FALSE),
             autoExpandChats |-> JsBool(FALSE), autoTempChat |-> JsBool(TRUE),
             tempChatEnabled |-> JsBool(FALSE)],
   local |-> [skipKey |-> JsStr("Alt"), holdToSend |-> JsBool(TRUE)]]

\* Storage nothing has been written to yet.
EmptyStore == [a \in Areas |-> EmptyObject]

Scenarios ==
  { Scenario(g, Conventions, AllElements, st, {}, 0) :
      g \in Globals, st \in [Areas -> StoredInputs] }
  \cup
  { Scenario(ChromeBoth, {"callback"}, d, SeedStore, Controls, 1) : d \in Documents }
  \cup
  { Scenario(g, a, AllElements, SeedStore, Controls, 1) :
      g \in Globals, a \in {{"throw", "callback"}, {"throw", "promise"}, {"both"}} }
  \cup
  { Scenario(ChromeBoth, {"callback"}, AllElements, SeedStore,
             {"holdToSend", "autoTempChat"}, MaxEdits),
    Scenario(ChromeLocal, {"callback"}, AllElements, SeedStore,
             {"holdToSend"}, MaxEdits),
    Scenario(ChromeBoth, {"callback"}, AllElements, EmptyStore,
             {"autoTempChat"}, MaxEdits) }

VARIABLES
  env,        \* the ambient namespaces (fixed during a behaviour)
  answers,    \* the conventions the host answers with (fixed)
  touched,    \* the controls the user changes (fixed)
  editsLeft,  \* the number of changes the user will still make
  elements,   \* ids present in the document
  phase,      \* "boot", "running" (listeners bound, load started) or "aborted"
  form,       \* selectEl.value and the three checkboxes' checked
  hint,       \* hintEl.textContent
  store,      \* contents of the host's sync and local areas
  procs,      \* the load() call (0) and the save() calls (1..MaxEdits)
  completed,  \* ids of the save() calls that settled, in settling order
  previous,   \* (history) what the page had saved when it was last closed
  call        \* an isolated call of normalizeSettings or setHint

vars == <<env, answers, touched, editsLeft, elements, phase, form, hint, store, procs,
          completed, previous, call>>

LoadId == 0
SaveIds == 1..MaxEdits
ProcIds == {LoadId} \cup SaveIds

(***************************************************************************)
(* The storage shim.                                                       *)
(***************************************************************************)
\* getStorageArea that looks at chrome first.
getStorageArea_PrefersChrome(preferSync) ==
  LET api == IF env.chrome.storage \/ ~env.browserDeclared
             THEN env.chrome ELSE env.browser
  IN IF ~api.storage THEN "null"
     ELSE IF preferSync /\ "sync" \in api.areas THEN "sync"
     ELSE IF "local" \in api.areas THEN "local"
     ELSE "null"

\* The area getStorageArea returns: "sync", "local" or "null".
getStorageArea(preferSync) ==
  LET api == IF env.browserDeclared THEN env.browser ELSE env.chrome
  IN IF ~api.storage THEN "null"
     ELSE IF preferSync /\ "sync" \in api.areas THEN "sync"
     ELSE IF "local" \in api.areas THEN "local"
     ELSE "null"

\* isThenable that recognises no promise.
isThenable_Never(conv) == FALSE

\* isThenable(r) for the value r a host call of the given convention returns.
isThenable(conv) == conv \in {"promise", "both"}

\* One attempt on one area: the promise tryGet/trySet builds and the host
\* call behind it.
\*   promise  "none" | "pending" | "resolved" | "rejected"
\*   host     "none" | "pending" (accepted, not yet performed) | "ok" | "fail"
\*   cbDue    the host still owes a callback invocation
\*   thenDue  the host's own promise has a reaction still to run
\*   arg      the mapping handed to the host call
\*   res      the mapping the host's get produced
NoTry ==
  [area |-> "null", promise |-> "none", host |-> "none",
   cbDue |-> FALSE, thenDue |-> FALSE, arg |-> EmptyObject, res |-> EmptyObject]

\* A promise that every call of resolve/reject settles anew.
Settle_LastSignalWins(try, outcome) == [try EXCEPT !.promise = outcome]

\* resolve/reject of a promise: the first call settles it, later calls do nothing.
Settle(try, outcome) ==
  IF try.promise = "pending" THEN [try EXCEPT !.promise = outcome] ELSE try

\* tryGet(area) up to the end of the promise executor.
tryGet(area, keys, conv) ==
  IF conv = "throw"
  THEN [NoTry EXCEPT !.area = area, !.arg = keys, !.promise = "rejected"]
  ELSE [NoTry EXCEPT !.area = area, !.arg = keys, !.promise = "pending",
                     !.host = "pending",
                     !.cbDue = (conv \in {"callback", "both"}),
                     !.thenDue = isThenable(conv)]

\* trySet that hands the host the default settings instead of obj.
trySet_WritesDefaults(area, obj, conv) ==
  LET defaults == [skipKey |-> JsStr("Shift"), holdToSend |-> JsBool(FALSE),
                   autoExpandChats |-> JsBool(TRUE), autoTempChat |-> JsBool(FALSE),
                   tempChatEnabled |-> JsBool(FALSE)]
  IN IF conv = "throw"
     THEN [NoTry EXCEPT !.area = area, !.arg = defaults, !.promise = "rejected"]
     ELSE [NoTry EXCEPT !.area = area, !.arg = defaults, !.promise = "pending",
                        !.host = "pending",
                        !.cbDue = (conv \in {"callback", "both"}),
                        !.thenDue = (conv \in {"promise", "both"})]

\* trySet(area) up to the end of the promise executor.
trySet(area, obj, conv) ==
  IF conv = "throw"
  THEN [NoTry EXCEPT !.area = area, !.arg = obj, !.promise = "rejected"]
  ELSE [NoTry EXCEPT !.area = area, !.arg = obj, !.promise = "pending",
                     !.host = "pending",
                     !.cbDue = (conv \in {"callback", "both"}),
                     !.thenDue = isThenable(conv)]

\* A storageGet/storageSet call.
\*   status  "idle" | "running" | "fulfilled" | "rejected"
\*   tries   the attempt made for areaSync and the one made for areaLocal
\*   value   what a fulfilled storageGet returns
NoOp ==
  [status |-> "idle", obj |-> EmptyObject, syncOk |-> FALSE,
   tries |-> <<NoTry, NoTry>>, value |-> Undefined]

\* storageGet without the fallback: a failed areaSync attempt fails the call.
storageGetAfterSync_NoFallback(op, conv) ==
  IF op.tries[1].promise = "resolved"
  THEN [op EXCEPT !.status = "fulfilled", !.value = Obj(op.tries[1].res)]
  ELSE IF op.tries[1].promise = "rejected"
  THEN [op EXCEPT !.status = "rejected"]
  ELSE [op EXCEPT !.status = "fulfilled", !.value = Obj(EmptyObject)]

\* storageGet from the point where the areaSync attempt is over (or was
\* skipped) up to the next await or its return; conv is how the host answers
\* a call made on the way.
storageGetAfterSync(op, conv) ==
  LET areaLocal == getStorageArea(FALSE)
      first == op.tries[1]
      second == tryGet(areaLocal, op.obj, conv)
  IN IF first.promise = "resolved"
     THEN [op EXCEPT !.status = "fulfilled", !.value = Obj(first.res)]
     ELSE IF areaLocal # "null"
     THEN [op EXCEPT !.tries[2] = second,
                     !.status = IF second.promise = "rejected"
                                THEN "rejected" ELSE "running"]
     ELSE [op EXCEPT !.status = "fulfilled", !.value = Obj(EmptyObject)]

\* storageGet returning the keys' defaults instead of what areaLocal found.
storageGetAfterLocal_Defaults(op) ==
  IF op.tries[2].promise = "resolved"
  THEN [op EXCEPT !.status = "fulfilled", !.value = Obj(op.obj)]
  ELSE [op EXCEPT !.status = "rejected"]

\* storageGet once the areaLocal attempt has settled.
storageGetAfterLocal(op) ==
  IF op.tries[2].promise = "resolved"
  THEN [op EXCEPT !.status = "fulfilled", !.value = Obj(op.tries[2].res)]
  ELSE [op EXCEPT !.status = "rejected"]

\* storageGet after the attempt it awaits has settled.
storageGetResume(op, conv) ==
  IF op.tries[2].promise = "none"
  THEN storageGetAfterSync(op, conv)
  ELSE storageGetAfterLocal(op)

\* storageGet(keys) from the call up to its first await (or its return).
storageGet(keys, conv1, conv2) ==
  LET areaSync == getStorageArea(TRUE)
      op == [NoOp EXCEPT !.status = "running", !.obj = keys,
                         !.tries[1] = IF areaSync # "null"
                                      THEN tryGet(areaSync, keys, conv1)
                                      ELSE NoTry]
  IN IF op.tries[1].promise = "pending" THEN op
     ELSE storageGetAfterSync(op, conv2)

\* storageSet that fails when it finds no area to write.
storageSetAfterSync_FailsWithoutArea(op, conv) ==
  LET areaLocal == getStorageArea(FALSE)
      syncOk == op.tries[1].promise = "resolved"
      second == trySet(areaLocal, op.obj, conv)
  IN IF ~syncOk /\ areaLocal # "null"
     THEN [op EXCEPT !.syncOk = syncOk,
                     !.tries[2] = second,
                     !.status = IF second.promise = "rejected"
                                THEN "rejected" ELSE "running"]
     ELSE [op EXCEPT !.syncOk = syncOk,
                     !.status = IF syncOk THEN "fulfilled" ELSE "rejected"]

\* storageSet that never records syncOk and so writes the local area too.
storageSetAfterSync_WritesBoth(op, conv) ==
  LET areaLocal == getStorageArea(FALSE)
      second == trySet(areaLocal, op.obj, conv)
  IN IF areaLocal # "null"
     THEN [op EXCEPT !.tries[2] = second,
                     !.status = IF second.promise = "rejected"
                                THEN "rejected" ELSE "running"]
     ELSE [op EXCEPT !.status = "fulfilled"]

\* storageSet from the point where the areaSync attempt is over (or was
\* skipped) up to the next await or its return.
storageSetAfterSync(op, conv) ==
  LET areaLocal == getStorageArea(FALSE)
      syncOk == op.tries[1].promise = "resolved"
      second == trySet(areaLocal, op.obj, conv)
  IN IF ~syncOk /\ areaLocal # "null"
     THEN [op EXCEPT !.syncOk = syncOk,
                     !.tries[2] = second,
                     !.status = IF second.promise = "rejected"
                                THEN "rejected" ELSE "running"]
     ELSE [op EXCEPT !.syncOk = syncOk, !.status = "fulfilled"]

\* storageSet once the areaLocal attempt has settled.
storageSetAfterLocal(op) ==
  IF op.tries[2].promise = "resolved"
  THEN [op EXCEPT !.status = "fulfilled"]
  ELSE [op EXCEPT !.status = "rejected"]

\* storageSet after the attempt it awaits has settled.
storageSetResume(op, conv) ==
  IF op.tries[2].promise = "none"
  THEN storageSetAfterSync(op, conv)
  ELSE storageSetAfterLocal(op)

\* storageSet(obj) from the call up to its first await (or its return).
storageSet(obj, conv1, conv2) ==
  LET areaSync == getStorageArea(TRUE)
      op == [NoOp EXCEPT !.status = "running", !.obj = obj,
                         !.tries[1] = IF areaSync # "null"
                                      THEN trySet(areaSync, obj, conv1)
                                      ELSE NoTry]
  IN IF op.tries[1].promise = "pending" THEN op
     ELSE storageSetAfterSync(op, conv2)

(***************************************************************************)
(* The host's storage areas.                                               *)
(***************************************************************************)
\* What area.get(keys, cb) finds: the stored entries among the keys asked for.
HostGet(stored, keys) ==
  [k \in (DOMAIN stored) \cap (DOMAIN keys) |-> stored[k]]

\* What area.set(values, cb) leaves stored: the given entries overwrite, the
\* other entries stay.
HostSet(stored, values) ==
  [k \in (DOMAIN stored) \cup (DOMAIN values) |->
     IF k \in DOMAIN values THEN values[k] ELSE stored[k]]

(***************************************************************************)
(* load() and save().                                                      *)
(***************************************************************************)
\* A call of load() or save().
\*   pc      "idle" | "running" | "done" | "failed"
\*   locals  save's skipKey, holdToSend, autoExpandChats, autoTempChat
\*   op      the storageGet/storageSet call it awaits
\*   overlap (history) another save() was in flight during this one
NoProc == [pc |-> "idle", locals |-> HtmlForm, op |-> NoOp, overlap |-> FALSE]

\* The pc of an async function whose awaited call is in the given state.
PcOf(op) ==
  CASE op.status = "fulfilled" -> "done"
    [] op.status = "rejected" -> "failed"
    [] OTHER -> "running"

\* load() that fills the autoTempChat checkbox from tempChatEnabled.
loadControls_FromAlias(settings) ==
  [skipKey |-> settings.skipKey,
   holdToSend |-> settings.holdToSend,
   autoExpandChats |-> settings.autoExpandChats,
   autoTempChat |-> settings.tempChatEnabled]

\* load(): what it assigns to the four controls.  The select is taken to
\* have an option for every stored skipKey, so that it keeps the value assigned.
loadControls(settings) ==
  [skipKey |-> settings.skipKey,
   holdToSend |-> settings.holdToSend,
   autoExpandChats |-> settings.autoExpandChats,
   autoTempChat |-> settings.autoTempChat]

\* load(): the hint it sets.
loadHint(settings) == setHint(settings.skipKey, settings.holdToSend)

\* save(): the four locals read from the controls.
saveLocals(controls) ==
  [skipKey |-> controls.skipKey,
   holdToSend |-> controls.holdToSend,
   autoExpandChats |-> controls.autoExpandChats,
   autoTempChat |-> controls.autoTempChat]

\* save() that leaves tempChatEnabled at its default.
savePayload_NoMirror(locals) ==
  [skipKey |-> JsStr(locals.skipKey),
   holdToSend |-> JsBool(locals.holdToSend),
   autoExpandChats |-> JsBool(locals.autoExpandChats),
   autoTempChat |-> JsBool(locals.autoTempChat),
   tempChatEnabled |-> JsBool(FALSE)]

\* save() that forgets the alias key.
savePayload_NoAlias(locals) ==
  [skipKey |-> JsStr(locals.skipKey),
   holdToSend |-> JsBool(locals.holdToSend),
   autoExpandChats |-> JsBool(locals.autoExpandChats),
   autoTempChat |-> JsBool(locals.autoTempChat)]

\* save(): the object literal passed to storageSet.
savePayload(locals) ==
  [skipKey |-> JsStr(locals.skipKey),
   holdToSend |-> JsBool(locals.holdToSend),
   autoExpandChats |-> JsBool(locals.autoExpandChats),
   autoTempChat |-> JsBool(locals.autoTempChat),
   tempChatEnabled |-> JsBool(locals.autoTempChat)]

\* save(): the hint it sets after storageSet returned.
saveHint(locals) == setHint(locals.skipKey, locals.holdToSend)

\* load() that falls back to the defaults when storageGet threw.
load_DefaultsOnFailure(op) ==
  /\ procs' = [procs EXCEPT ![LoadId] = [@ EXCEPT !.op = op, !.pc = PcOf(op)]]
  /\ IF op.status \in {"fulfilled", "rejected"}
     THEN LET settings == normalizeSettings(IF op.status = "fulfilled"
                                            THEN op.value ELSE Obj(EmptyObject))
          IN /\ form' = [skipKey |-> settings.skipKey,
                         holdToSend |-> settings.holdToSend,
                         autoExpandChats |-> settings.autoExpandChats,
                         autoTempChat |-> settings.autoTempChat]
             /\ hint' = setHint(settings.skipKey, settings.holdToSend)
     ELSE UNCHANGED <<form, hint>>
  /\ UNCHANGED completed

\* load() from the point where storageGet has reached state op: it goes on
\* to the end when storageGet returned, fails when storageGet threw (the
\* startup call's catch swallows that), and keeps waiting otherwise.
load(op) ==
  /\ procs' = [procs EXCEPT ![LoadId] = [@ EXCEPT !.op = op, !.pc = PcOf(op)]]
  /\ IF op.status = "fulfilled"
     THEN LET settings == normalizeSettings(op.value)
          IN /\ form' = loadControls(settings)
             /\ hint' = loadHint(settings)
     ELSE UNCHANGED <<form, hint>>
  /\ UNCHANGED completed

\* save() number id, with the given locals, from the point where storageSet
\* has reached state op (the listener's catch swallows a failure).
save(id, locals, op) ==
  LET others == {q \in SaveIds \ {id} : procs[q].pc = "running"}
      starts == procs[id].pc = "idle"
  IN
  /\ procs' = [q \in ProcIds |->
                 IF q = id
                 THEN [pc |-> PcOf(op), locals |-> locals, op |-> op,
                       overlap |-> procs[id].overlap \/ (starts /\ others # {})]
                 ELSE IF starts /\ q \in others
                 THEN [procs[q] EXCEPT !.overlap = TRUE]
                 ELSE procs[q]]
  /\ hint' = IF op.status = "fulfilled" THEN saveHint(locals) ELSE hint
  /\ completed' = IF op.status \in {"fulfilled", "rejected"}
                  THEN Append(completed, id) ELSE completed

(***************************************************************************)
(* Actions.                                                                *)
(***************************************************************************)
\* An isolated call: the function, its arguments (value for normalizeSettings,
\* skipKey and holdToSend for setHint), whether it has returned, its result.
NoCall ==
  [fn |-> "none", value |-> Undefined, skipKey |-> "", holdToSend |-> FALSE,
   returned |-> FALSE, result |-> SETTINGS_DEFAULTS]

\* What is remembered of the page that was open before this one:
\*   opened     there was such a page
\*   persisted  its save() completed without error after a storage area had
\*              carried out its set
\*   payload    the mapping that save() handed to storageSet
NoPrevious == [opened |-> FALSE, persisted |-> FALSE, payload |-> EmptyObject]

Init ==
  /\ call = NoCall
  /\ \E sc \in Scenarios :
       /\ env = sc.globals
       /\ answers = sc.answers
       /\ touched = sc.touched
       /\ elements = sc.doc
       /\ store = sc.stored
       /\ editsLeft = sc.edits
  /\ phase = "boot"
  /\ form = HtmlForm
  /\ hint = HtmlHint
  /\ procs = [p \in ProcIds |-> NoProc]
  /\ completed = <<>>
  /\ previous = NoPrevious

\* mustGetElement that hands back whatever the lookup gave, null included.
mustGetElement_NoThrow(id) == TRUE

\* mustGetElement(id): TRUE when it returns the element, FALSE when it throws.
mustGetElement(id) == id \in elements

\* The script runs: the five mustGetElement lookups, the four listener
\* bindings and the startup load() up to its first await.  A lookup that
\* throws ends the script there.
Startup ==
  /\ phase = "boot"
  /\ IF \E i \in DOMAIN ElementIds : ~mustGetElement(ElementIds[i])
     THEN /\ phase' = "aborted"
          /\ UNCHANGED <<form, hint, procs, completed>>
     ELSE /\ phase' = "running"
          /\ \E conv1, conv2 \in answers :
               load(storageGet(SettingsObject(SETTINGS_DEFAULTS), conv1, conv2))
  /\ UNCHANGED <<env, answers, touched, editsLeft, elements, store, previous, call>>

\* The user changes one control; its change listener calls save(), which
\* runs up to its first await.
Change(control, choice) ==
  /\ phase = "running"
  /\ control \in touched
  /\ editsLeft > 0
  /\ editsLeft' = editsLeft - 1
  /\ LET id == CHOOSE p \in SaveIds :
                 /\ procs[p].pc = "idle"
                 /\ \A q \in SaveIds : q < p => procs[q].pc # "idle"
         edited == IF control = "skipKey"
                   THEN [form EXCEPT !.skipKey = choice]
                   ELSE [form EXCEPT ![control] = ~@]
         locals == saveLocals(edited)
     IN /\ edited # form
        /\ form' = edited
        /\ \E conv1, conv2 \in answers :
             save(id, locals, storageSet(savePayload(locals), conv1, conv2))
  /\ UNCHANGED <<env, answers, touched, elements, phase, store, previous, call>>

\* The host carries out (or fails to carry out) an accepted call.
HostPerform(p, i, ok) ==
  LET try == procs[p].op.tries[i]
      area == try.area
      done == IF ~ok THEN [try EXCEPT !.host = "fail"]
              ELSE IF p = LoadId
              THEN [try EXCEPT !.host = "ok", !.res = HostGet(store[area], try.arg)]
              ELSE [try EXCEPT !.host = "ok"]
  IN /\ try.host = "pending"
     /\ procs' = [procs EXCEPT ![p].op.tries[i] = done]
     /\ store' = IF ok /\ p # LoadId
                 THEN [store EXCEPT ![area] = HostSet(@, try.arg)]
                 ELSE store
     /\ UNCHANGED <<env, answers, touched, editsLeft, elements, phase, form, hint,
                     completed, previous, call>>

\* A completion signal reaches attempt i of call p, leaving the attempt as
\* signalled; when that settles the awaited promise, the async function
\* continues (conv: how the host answers a call made on the way).
Deliver(p, i, signalled, conv) ==
  LET before == procs[p].op
      after == [before EXCEPT !.tries[i] = signalled]
      woke == before.tries[i].promise = "pending"
  IN /\ IF ~woke
        THEN /\ procs' = [procs EXCEPT ![p].op = after]
             /\ UNCHANGED <<form, hint, completed>>
        ELSE IF p = LoadId
        THEN load(storageGetResume(after, conv))
        ELSE /\ save(p, procs[p].locals, storageSetResume(after, conv))
             /\ UNCHANGED form
     /\ UNCHANGED <<env, answers, touched, editsLeft, elements, phase, store,
                     previous, call>>

\* The host invokes the callback.  When this is the call's first completion
\* signal, chrome.runtime.lastError is set exactly when the call failed; a
\* signal that comes second may say either.
HostCallback(p, i) ==
  LET try == procs[p].op.tries[i]
  IN /\ try.host \in {"ok", "fail"}
     /\ try.cbDue
     /\ \E conv \in answers, lastError \in BOOLEAN :
          /\ try.promise = "pending" => lastError = (try.host = "fail")
          /\ Deliver(p, i,
                     Settle([try EXCEPT !.cbDue = FALSE],
                            IF lastError THEN "rejected" ELSE "resolved"),
                     conv)

\* The promise the host returned settles and the reaction registered by
\* r.then(resolve, reject) runs.  When this is the call's first completion
\* signal, the promise rejects exactly when the call failed; a signal that
\* comes second may say either.
HostThen(p, i) ==
  LET try == procs[p].op.tries[i]
  IN /\ try.host \in {"ok", "fail"}
     /\ try.thenDue
     /\ \E conv \in answers, rejects \in BOOLEAN :
          /\ try.promise = "pending" => rejects = (try.host = "fail")
          /\ Deliver(p, i,
                     Settle([try EXCEPT !.thenDue = FALSE],
                            IF rejects THEN "rejected" ELSE "resolved"),
                     conv)

\* The user, having made one change and no more to come, closes the options
\* page while nothing is in flight and opens it again: a new document as
\* authored and a new run of the script, over the same storage areas.
Reopen ==
  /\ phase = "running"
  /\ editsLeft = 0
  /\ Len(completed) = 1
  /\ \A p \in ProcIds : procs[p].pc # "running"
  /\ LET last == procs[completed[1]]
     IN previous' = [opened |-> TRUE,
                     persisted |-> /\ last.pc = "done"
                                   /\ \E i \in 1..2 : last.op.tries[i].host = "ok",
                     payload |-> last.op.obj]
  /\ phase' = "boot"
  /\ form' = HtmlForm
  /\ hint' = HtmlHint
  /\ procs' = [p \in ProcIds |-> NoProc]
  /\ completed' = <<>>
  /\ UNCHANGED <<env, answers, touched, editsLeft, elements, store, call>>

Next ==
  \/ Startup
  \/ \E control \in Controls, choice \in SkipKeyOptions : Change(control, choice)
  \/ \E p \in ProcIds, i \in 1..2, ok \in BOOLEAN : HostPerform(p, i, ok)
  \/ \E p \in ProcIds, i \in 1..2 : HostCallback(p, i)
  \/ \E p \in ProcIds, i \in 1..2 : HostThen(p, i)
  \/ Reopen

Spec == Init /\ [][Next]_vars

\* A step of the host on some accepted call.
HostStep ==
  \E p \in ProcIds, i \in 1..2 :
    \/ \E ok \in BOOLEAN : HostPerform(p, i, ok)
    \/ HostCallback(p, i)
    \/ HostThen(p, i)

\* The runs explored on such a host, a part of those above: the startup load
\* alone in every environment, over the seeded and over empty storage; one
\* change on a host with both areas; up to MaxEdits overlapping changes over
\* empty storage.
InitFair ==
  /\ Init
  /\ store \in {SeedStore, EmptyStore}
  /\ editsLeft = MaxEdits => store = EmptyStore
  /\ (0 < editsLeft /\ editsLeft < MaxEdits) =>
       (env = ChromeBoth /\ answers \in {{"both"}, {"callback"}})

\* The same program on a host that completes every call it has accepted: it
\* carries the call out and delivers every completion signal it owes.
SpecFair == InitFair /\ [][Next]_vars /\ WF_vars(HostStep)

(***************************************************************************)
(* normalizeSettings and setHint called in isolation, on inputs drawn from *)
(* bounded sets.                                                           *)
(***************************************************************************)
\* Values a stored key may hold: strings, booleans, a number, null.
RawValues ==
  {JsStr("Alt"), JsStr("None"), JsBool(TRUE), JsBool(FALSE), JsNum(42), JsNull}

\* null, undefined and every mapping of some of the five keys to raw values.
RawInputs ==
  {Null, Undefined}
  \cup {Obj(m) : m \in UNION {[K -> RawValues] : K \in SUBSET SettingsKeys}}

\* Arguments of setHint.
HintInputs ==
  {<<k, h>> : k \in {"None", "Ctrl", "Alt", "Shift", "Meta", "none", ""},
              h \in BOOLEAN}

InitPure ==
  /\ call \in {[NoCall EXCEPT !.fn = "normalizeSettings", !.value = x] :
                 x \in RawInputs}
            \cup {[NoCall EXCEPT !.fn = "setHint", !.skipKey = x[1],
                                 !.holdToSend = x[2]] : x \in HintInputs}
  /\ env = ChromeBoth
  /\ answers = {"callback"}
  /\ touched = {}
  /\ elements = AllElements
  /\ store = SeedStore
  /\ editsLeft = 0
  /\ phase = "boot"
  /\ form = HtmlForm
  /\ hint = HtmlHint
  /\ procs = [p \in ProcIds |-> NoProc]
  /\ completed = <<>>
  /\ previous = NoPrevious

\* normalizeSettings(arg) returns.
CallNormalize ==
  /\ call.fn = "normalizeSettings"
  /\ ~call.returned
  /\ call' = [call EXCEPT !.returned = TRUE,
                          !.result = normalizeSettings(call.value)]
  /\ UNCHANGED <<env, answers, touched, editsLeft, elements, phase, form, hint,
                 store, procs, completed, previous>>

\* setHint(skipKey, holdToSend) writes the hint element.
CallSetHint ==
  /\ call.fn = "setHint"
  /\ ~call.returned
  /\ call' = [call EXCEPT !.returned = TRUE]
  /\ hint' = setHint(call.skipKey, call.holdToSend)
  /\ UNCHANGED <<env, answers, touched, editsLeft, elements, phase, form,
                 store, procs, completed, previous>>

NextPure == CallNormalize \/ CallSetHint

SpecPure == InitPure /\ [][NextPure]_vars

(***************************************************************************)
(* Properties.                                                             *)
(***************************************************************************)
\* The namespace getStorageArea picks, and the areas it exposes.
ExposedAreas ==
  LET api == IF env.browserDeclared THEN env.browser ELSE env.chrome
  IN IF api.storage THEN api.areas ELSE {}

\* The save() calls that have started.
Started == {p \in SaveIds : procs[p].pc # "idle"}

\* The attempts of call p made on the given area.
TriesOn(p, area) == {i \in 1..2 : procs[p].op.tries[i].area = area}

\* C1: in every storageSet call, once the synced area's set has succeeded
\* the local area's set is never invoked; and when the synced area is absent
\* or its set has failed, and a local area exists, the local area's set has
\* been invoked with exactly the mapping that storageSet was given.
C1_SetFallback ==
  \A p \in Started :
    LET op == procs[p].op
        syncOk == \E i \in TriesOn(p, "sync") : op.tries[i].promise = "resolved"
        syncFailed == \E i \in TriesOn(p, "sync") : op.tries[i].promise = "rejected"
    IN /\ syncOk => TriesOn(p, "local") = {}
       /\ ("sync" \notin ExposedAreas \/ syncFailed) /\ "local" \in ExposedAreas
            => /\ TriesOn(p, "local") # {}
               /\ \A i \in TriesOn(p, "local") : op.tries[i].arg = op.obj

\* A save whose synced set failed and whose local set then stored the payload.
C1_Witness ==
  \E p \in Started :
    LET op == procs[p].op
    IN /\ op.tries[1].area = "sync" /\ op.tries[1].promise = "rejected"
       /\ op.tries[2].area = "local" /\ op.tries[2].promise = "resolved"
       /\ op.tries[2].arg = op.obj
       /\ store["local"] = op.obj

C3_GetFallback ==
  LET op == procs[LoadId].op
      syncOk == {i \in TriesOn(LoadId, "sync") : op.tries[i].promise = "resolved"}
      syncFailed == \E i \in TriesOn(LoadId, "sync") : op.tries[i].promise = "rejected"
      localOk == {i \in TriesOn(LoadId, "local") : op.tries[i].promise = "resolved"}
  IN /\ syncOk # {} => TriesOn(LoadId, "local") = {}
     /\ op.status = "fulfilled" =>
          /\ \A i \in syncOk :
               /\ op.value = Obj(op.tries[i].res)
               /\ Started = {} => op.value = Obj(store["sync"])
          /\ syncFailed /\ "local" \in ExposedAreas =>
               /\ localOk # {}
               /\ \A i \in localOk :
                    /\ op.value = Obj(op.tries[i].res)
                    /\ Started = {} => op.value = Obj(store["local"])
          /\ ExposedAreas = {} => op.value = Obj(EmptyObject)

\* The synced get failed and load() got the local area's (different) contents.
C3_Witness ==
  LET op == procs[LoadId].op
  IN /\ op.status = "fulfilled"
     /\ op.tries[1].area = "sync" /\ op.tries[1].promise = "rejected"
     /\ op.tries[2].area = "local" /\ op.tries[2].promise = "resolved"
     /\ op.value = Obj(store["local"])
     /\ store["local"] # store["sync"]
     /\ store["local"] # EmptyObject

\* The areas some started save() has written: its set there was carried out.
Writers(area) ==
  {p \in Started :
     \E i \in TriesOn(p, area) : procs[p].op.tries[i].host = "ok"}

\* C4: every mapping save() hands to a storage area has tempChatEnabled equal
\* to autoTempChat, which is the checkbox value save() read; so every area
\* that a save() of this page has written stores tempChatEnabled equal to
\* autoTempChat.
C4_TempChatMirrors ==
  /\ \A p \in Started : \A i \in 1..2 :
       LET try == procs[p].op.tries[i]
       IN try.area # "null" =>
            /\ try.arg["autoTempChat"] = JsBool(procs[p].locals.autoTempChat)
            /\ try.arg["tempChatEnabled"] = try.arg["autoTempChat"]
  /\ \A a \in Areas :
       Writers(a) # {} => store[a]["tempChatEnabled"] = store[a]["autoTempChat"]

\* Two overlapping saves have settled and a written area stores
\* autoTempChat = tempChatEnabled = true.
C4_Witness ==
  /\ Len(completed) = 2
  /\ \A p \in Started : procs[p].overlap
  /\ \E a \in Areas :
       /\ Writers(a) # {}
       /\ store[a]["autoTempChat"] = JsBool(TRUE)
       /\ store[a]["tempChatEnabled"] = JsBool(TRUE)

\* The field of a raw input when it has the type the Settings field wants.
WellTyped(key, value) ==
  /\ value.kind = "object"
  /\ key \in DOMAIN value.map
  /\ value.map[key].type = (IF key = "skipKey" THEN "string" ELSE "boolean")

\* C5: normalizeSettings returns, for every raw input, a record of the five
\* fields, skipKey a string and the others booleans, each equal to the
\* input's value when that has the expected type and to the default
\* (Shift, false, true, false, false) otherwise; the empty mapping gives the
\* defaults, and tempChatEnabled does not depend on autoTempChat.
C5_NormalizeTotal ==
  (call.fn = "normalizeSettings" /\ call.returned) =>
    LET in == call.value
        out == call.result
    IN /\ DOMAIN out = SettingsKeys
       /\ out.skipKey \in STRING
       /\ \A k \in SettingsKeys \ {"skipKey"} : out[k] \in BOOLEAN
       /\ out.skipKey = IF WellTyped("skipKey", in)
                        THEN in.map["skipKey"].s ELSE "Shift"
       /\ out.holdToSend = IF WellTyped("holdToSend", in)
                           THEN in.map["holdToSend"].b ELSE FALSE
       /\ out.autoExpandChats = IF WellTyped("autoExpandChats", in)
                                THEN in.map["autoExpandChats"].b ELSE TRUE
       /\ out.autoTempChat = IF WellTyped("autoTempChat", in)
                             THEN in.map["autoTempChat"].b ELSE FALSE
       /\ out.tempChatEnabled = IF WellTyped("tempChatEnabled", in)
                                THEN in.map["tempChatEnabled"].b ELSE FALSE
       /\ in = Obj(EmptyObject) => out = SETTINGS_DEFAULTS

\* normalize({skipKey: 42, holdToSend: true}) has returned.
C5_Witness ==
  /\ call.fn = "normalizeSettings"
  /\ call.returned
  /\ call.value = Obj([skipKey |-> JsNum(42), holdToSend |-> JsBool(TRUE)])
  /\ call.result = [skipKey |-> "Shift", holdToSend |-> TRUE,
                    autoExpandChats |-> TRUE, autoTempChat |-> FALSE,
                    tempChatEnabled |-> FALSE]

\* The four hint texts.
HintText(skipKey, holdToSend) ==
  CASE skipKey = "None" /\ ~holdToSend ->
         "Auto-send always happens when you accept dictation."
    [] skipKey = "None" /\ holdToSend ->
         "Auto-send is disabled because no modifier key is selected."
    [] skipKey # "None" /\ ~holdToSend ->
         "Hold " \o skipKey \o " while accepting dictation to skip auto-send."
    [] skipKey # "None" /\ holdToSend ->
         "Auto-send happens only while holding " \o skipKey
           \o " when you accept dictation."

\* C6: setHint writes, for every skipKey and holdToSend, the text of the
\* table: the 'always happens' / 'disabled' texts for "None", the
\* 'Hold {skipKey} ... to skip' / 'only while holding {skipKey}' texts
\* otherwise.
C6_HintTable ==
  (call.fn = "setHint" /\ call.returned) =>
    /\ hint = HintText(call.skipKey, call.holdToSend)
    /\ (call.skipKey = "Ctrl" /\ ~call.holdToSend) =>
         hint = "Hold Ctrl while accepting dictation to skip auto-send."
    /\ (call.skipKey = "Ctrl" /\ call.holdToSend) =>
         hint = "Auto-send happens only while holding Ctrl when you accept dictation."

\* setHint("Ctrl", true) has written its text.
C6_Witness ==
  /\ call.fn = "setHint"
  /\ call.returned
  /\ call.skipKey = "Ctrl"
  /\ call.holdToSend
  /\ hint = "Auto-send happens only while holding Ctrl when you accept dictation."

\* C7: the step in which load() completes leaves the four controls equal to
\* the normalization of the mapping storageGet returned, and the hint equal
\* to the hint text of the normalized skipKey and holdToSend.
C7_LoadReflectsStorage ==
  [][ (procs[LoadId].pc # "done" /\ procs'[LoadId].pc = "done") =>
        LET settings == normalizeSettings(procs'[LoadId].op.value)
        IN /\ form'.skipKey = settings.skipKey
           /\ form'.holdToSend = settings.holdToSend
           /\ form'.autoExpandChats = settings.autoExpandChats
           /\ form'.autoTempChat = settings.autoTempChat
           /\ hint' = HintText(settings.skipKey, settings.holdToSend) ]_vars

\* load() completed on the stored record {skipKey: "Alt", holdToSend: true}.
C7_Witness ==
  /\ procs[LoadId].pc = "done"
  /\ procs[LoadId].op.value = Obj([skipKey |-> JsStr("Alt"), holdToSend |-> JsBool(TRUE)])
  /\ form = [skipKey |-> "Alt", holdToSend |-> TRUE,
             autoExpandChats |-> TRUE, autoTempChat |-> FALSE]
  /\ hint = "Auto-send happens only while holding Alt when you accept dictation."

\* C8: no step of load() other than its successful completion changes a
\* control or the hint, so a load() that failed has changed nothing; with no
\* change made by the user the form and the hint are still as authored.
\* (A step that leaves load() idle is the page being opened anew, not a step
\* of load().)
C8_FailedLoadChangesNothing ==
  /\ [][ (procs'[LoadId] # procs[LoadId] /\ procs'[LoadId].pc \notin {"done", "idle"}) =>
           (form' = form /\ hint' = hint) ]_vars
  /\ [](procs[LoadId].pc = "failed" /\ Started = {} =>
          form = HtmlForm /\ hint = HtmlHint)

\* load() has failed; the form is as authored.
C8_Witness ==
  /\ procs[LoadId].pc = "failed"
  /\ procs[LoadId].op.status = "rejected"
  /\ Started = {}
  /\ form = HtmlForm
  /\ hint = HtmlHint

\* The stored state as the page reads it back: the synced area's contents
\* when there is a synced area, the local area's otherwise.
Readable == IF "sync" \in ExposedAreas THEN store["sync"] ELSE store["local"]

\* All started saves have completed, each overlapped another one.
OverlappingSavesDone ==
  /\ Len(completed) >= 2
  /\ \A p \in Started : procs[p].pc = "done" /\ procs[p].overlap

\* C9 (as claimed): once overlapping saves have all completed, the stored
\* state is the payload of the save that completed last.
C9_LastCompletedWins ==
  OverlappingSavesDone =>
    Readable = savePayload(procs[completed[Len(completed)]].locals)

\* C9 (amended): every area some save has written stores the payload of one
\* of the saves whose set on that area was carried out (the one the host
\* carried out last), which need not be the save that completed last.
C9_SomeWriterWins ==
  \A a \in Areas :
    Writers(a) # {} =>
      \E p \in Writers(a) :
        LET l == procs[p].locals
        IN store[a] = [skipKey |-> JsStr(l.skipKey),
                       holdToSend |-> JsBool(l.holdToSend),
                       autoExpandChats |-> JsBool(l.autoExpandChats),
                       autoTempChat |-> JsBool(l.autoTempChat),
                       tempChatEnabled |-> JsBool(l.autoTempChat)]

\* Overlapping saves have all completed and the stored state is the payload
\* of a save other than the one that completed last.
C9_Witness ==
  /\ OverlappingSavesDone
  /\ \E p \in Writers(IF "sync" \in ExposedAreas THEN "sync" ELSE "local") :
       /\ p # completed[Len(completed)]
       /\ Readable = savePayload(procs[p].locals)
       /\ Readable # savePayload(procs[completed[Len(completed)]].locals)

\* C10: with no storage area, every save() completes in the step that starts
\* it, without any host call and without failing, has set the hint from the
\* skipKey and holdToSend it read, and has stored nothing.
C10_SaveWithoutStorage ==
  ExposedAreas = {} =>
    /\ \A p \in Started :
         /\ procs[p].pc = "done"
         /\ procs[p].op.status = "fulfilled"
         /\ procs[p].op.tries = <<NoTry, NoTry>>
    /\ completed # <<>> =>
         LET l == procs[completed[Len(completed)]].locals
         IN /\ l = form
            /\ hint = HintText(l.skipKey, l.holdToSend)
            /\ store = SeedStore

\* Without storage, the user picked "None" and the hint follows.
C10_Witness ==
  /\ ExposedAreas = {}
  /\ \E p \in Started : procs[p].pc = "done" /\ procs[p].locals.skipKey = "None"
  /\ hint = "Auto-send always happens when you accept dictation."

\* C11: in a document that lacks one of the five required elements the
\* script never gets to bind a change listener or to call load(): no load()
\* or save() ever starts, no storage get or set is invoked, and the form and
\* the hint stay as authored.
C11_MissingElementAborts ==
  elements # AllElements =>
    /\ phase \in {"boot", "aborted"}
    /\ \A p \in ProcIds : procs[p] = NoProc
    /\ completed = <<>>
    /\ form = HtmlForm
    /\ hint = HtmlHint
    /\ store = SeedStore

\* The select is missing; the script has aborted although the user is about
\* to change a control.
C11_Witness ==
  /\ "skipKey" \notin elements
  /\ phase = "aborted"
  /\ editsLeft > 0
  /\ touched # {}

\* No load() and no save() is in flight.
Quiescent == \A p \in ProcIds : procs[p].pc # "running"

\* C12 (as claimed): whenever no load() or save() is in flight, after the
\* load has filled the form and the user has made changes, whatever became of
\* their saves, the hint is the hint text of the skipKey and holdToSend the
\* form shows.
C12_HintFollowsForm ==
  (/\ Quiescent
   /\ procs[LoadId].pc = "done"
   /\ completed # <<>>)
    => hint = HintText(form.skipKey, form.holdToSend)

\* C13 (as claimed): the page made one save(), which completed without
\* error after a storage area had stored its payload; the storageGet of the
\* page opened next, when it returns what an area's get gave it, returns that
\* payload, whichever of the other set and get calls failed.
C13_ReadYourWrites ==
  LET op == procs[LoadId].op
  IN (/\ previous.persisted
      /\ op.status = "fulfilled"
      /\ \E i \in 1..2 : op.tries[i].promise = "resolved")
       => op.value = Obj(previous.payload)

\* C14 (as claimed): the startup load() never overwrites a user edit: when
\* the user has changed a control while load() was in flight, the step in
\* which load() completes leaves the four controls as the user left them.
C14_LoadKeepsUserEdit ==
  [][ (/\ procs[LoadId].pc = "running"
       /\ Started # {}
       /\ procs'[LoadId].pc = "done")
        => form' = form ]_vars

\* The attempts that have been made: attempt i of call p, on some area.
Attempts == {pi \in ProcIds \X (1..2) : procs[pi[1]].op.tries[pi[2]].area # "null"}

\* C15: every attempt (tryGet/trySet) settles once, with the outcome of its
\* first completion: it is rejected when the host call threw, it stays
\* pending until the host signals, the first signal (callback or promise)
\* rejects it exactly when the call failed (lastError set, promise rejected)
\* and resolves it otherwise, and once it is settled no later signal
\* changes its outcome or its result.
C15_AttemptSettlesOnce ==
  /\ [](\A pi \in Attempts :
          LET try == procs[pi[1]].op.tries[pi[2]]
          IN /\ try.host = "none" => try.promise = "rejected"
             /\ try.host = "pending" => try.promise = "pending"
             /\ try.host = "ok" => try.promise \in {"pending", "resolved"}
             /\ try.host = "fail" => try.promise \in {"pending", "rejected"}
             /\ (~try.cbDue /\ ~try.thenDue) => try.promise # "pending")
  /\ [][ \A pi \in Attempts :
           LET before == procs[pi[1]].op.tries[pi[2]]
               after == procs'[pi[1]].op.tries[pi[2]]
               signalled == \/ before.cbDue /\ ~after.cbDue
                            \/ before.thenDue /\ ~after.thenDue
           IN after.area # "null" =>
                /\ (before.promise = "pending" /\ signalled) =>
                     after.promise = IF before.host = "fail"
                                     THEN "rejected" ELSE "resolved"
                /\ before.promise # "pending" =>
                     /\ after.promise = before.promise
                     /\ after.res = before.res ]_vars

\* A host that both calls the callback and returns a promise has delivered
\* both signals of a get that found the stored record; the attempt is resolved.
C15_Witness ==
  /\ answers = {"both"}
  /\ <<LoadId, 1>> \in Attempts
  /\ LET try == procs[LoadId].op.tries[1]
     IN /\ try.host = "ok"
        /\ ~try.cbDue
        /\ ~try.thenDue
        /\ try.promise = "resolved"
        /\ try.res = store[try.area]
        /\ try.res # EmptyObject

\* C16 (as claimed): within one storageGet or storageSet call the synced
\* area's operation is invoked at most once and the local area's operation
\* is invoked at most once.
C16_EachAreaOnce ==
  \A p \in ProcIds : \A a \in Areas : Cardinality(TriesOn(p, a)) <= 1

\* A flat mapping with exactly the five Settings keys, skipKey a string and
\* the other four booleans.
FiveKeyRecord(r) ==
  /\ DOMAIN r = SettingsKeys
  /\ r["skipKey"].type = "string"
  /\ \A k \in SettingsKeys \ {"skipKey"} : r[k].type = "boolean"

\* C17: every mapping handed to an area's set is a five-key record of a
\* string and four booleans; and when storage starts empty, each area is at
\* all times either empty or holds exactly such a record.
C17_PayloadShape ==
  /\ [](\A p \in Started : \A i \in 1..2 :
          LET try == procs[p].op.tries[i]
          IN try.area # "null" => FiveKeyRecord(try.arg))
  /\ (store = EmptyStore =>
        [](\A a \in Areas : store[a] = EmptyObject \/ FiveKeyRecord(store[a])))

\* Storage started empty; the synced set failed, so the synced area is still
\* empty and the local area holds the five-key record of a later save.
C17_Witness ==
  /\ store["sync"] = EmptyObject
  /\ Len(completed) = 2
  /\ \E p \in Writers("local") :
       /\ store["local"] = procs[p].op.obj
       /\ FiveKeyRecord(store["local"])

\* C18: on a host that completes every call it accepts, every load() and
\* every save() that has started settles (completes or fails), however many
\* saves overlap: from some point on none of them is running.  A call that
\* has settled has no attempt outstanding, has made at most two attempts,
\* and makes no further one.
C18_EveryCallSettles ==
  /\ <>[](\A p \in ProcIds : procs[p].pc # "running")
  /\ [](\A p \in ProcIds :
          procs[p].pc \in {"done", "failed"} =>
            /\ \A i \in 1..2 : procs[p].op.tries[i].promise # "pending"
            /\ Cardinality({pi \in Attempts : pi[1] = p}) <= 2)
  /\ [][ \A p \in ProcIds :
           (procs[p].pc \in {"done", "failed"} /\ procs'[p].pc = procs[p].pc) =>
             \A i \in 1..2 :
               procs'[p].op.tries[i].area = procs[p].op.tries[i].area ]_vars

\* MaxEdits overlapping saves and the load have all settled, one of the saves
\* after two attempts.
C18_Witness ==
  /\ Len(completed) = MaxEdits
  /\ \A p \in ProcIds : procs[p].pc \in {"done", "failed"}
  /\ \A p \in SaveIds : procs[p].overlap
  /\ \E p \in SaveIds : Cardinality({pi \in Attempts : pi[1] = p}) = 2

\* The areas of the storage object a namespace exposes.
AreasOf(declared, namespace) ==
  IF declared /\ namespace.storage THEN namespace.areas ELSE {}

\* C19 (as claimed): when either namespace exposes a storage object with at
\* least one area, getStorageArea returns an area: the synced area when
\* preferSync is true and a synced area exists, the local area otherwise.
C19_AnyStorageIsFound ==
  LET either == AreasOf(env.browserDeclared, env.browser) \cup AreasOf(TRUE, env.chrome)
  IN (phase = "running" /\ either # {}) =>
       \A preferSync \in BOOLEAN :
         /\ getStorageArea(preferSync) # "null"
         /\ getStorageArea(preferSync) =
              IF preferSync /\ "sync" \in either THEN "sync" ELSE "local"

\* C19 (amended): getStorageArea consults one namespace, browser when it is
\* defined and chrome otherwise.  It returns an area exactly when that
\* namespace's storage object has the area asked for: the synced area when
\* preferSync is true and it is there, otherwise the local area when that is
\* there, otherwise null.  Every attempt of the page is made on an area of
\* that namespace, load()'s first on the area getStorageArea(true) returns.
C19_ChosenNamespaceDecides ==
  LET areas == IF env.browserDeclared
               THEN AreasOf(TRUE, env.browser) ELSE AreasOf(TRUE, env.chrome)
  IN /\ getStorageArea(TRUE) # "null" <=> areas # {}
     /\ getStorageArea(FALSE) # "null" <=> "local" \in areas
     /\ getStorageArea(TRUE) = "sync" <=> "sync" \in areas
     /\ getStorageArea(FALSE) # "sync"
     /\ \A pi \in Attempts : procs[pi[1]].op.tries[pi[2]].area \in areas
     /\ phase = "running" => procs[LoadId].op.tries[1].area = getStorageArea(TRUE)

\* browser has a local area only and chrome has both: load() read the local
\* area at its first attempt and never touched the synced one.
C19_Witness ==
  /\ env.browserDeclared
  /\ AreasOf(TRUE, env.browser) = {"local"}
  /\ AreasOf(TRUE, env.chrome) = Areas
  /\ procs[LoadId].pc = "done"
  /\ procs[LoadId].op.tries[1].area = "local"
  /\ procs[LoadId].op.tries[1].promise = "resolved"
  /\ procs[LoadId].op.tries[2].area = "null"

====
